---- MODULE Spec2Model ----
(***************************************************************************)
(* A model of seo_audit.py: the crawl loop of run_audit (frontier, visited *)
(* set, page budget, endpoint probes), the URL helpers it rests on, the    *)
(* page extractor audit_from_dom and the page scorer score_page.           *)
(*                                                                         *)
(* Strings are modelled by what the code reads of them:                    *)
(*   - a URL "sch://h/p[ ][#f]" is the record [sch, h, p, sp, fr]: scheme, *)
(*     authority (case kept), path number (0 is "/"), a space between the  *)
(*     path and what follows, and a fragment;                              *)
(*   - an href is [k, h, p, sp, fr]: its kind k says how it starts;        *)
(*   - a text field (title, description) is its length;                    *)
(*   - load_time_sec is kept in milliseconds (2.0 s is 2000).              *)
(***************************************************************************)
EXTENDS Integers, Sequences, FiniteSets, TLC

\* ------------------------------------------------------------------ bounds
\* Paths 0..MaxPath exist on a host of the small world.
MaxPath == 3
\* The largest page budget of the small world.
MaxBudget == 3
\* The link-heavy page of the fan world has MAX_NEW + FanExtra links.
FanExtra == 2

\* the most pages of a SiteAudit handed to the aggregation
MaxSitePages == 3

\* ------------------------------------------------------- program constants
TITLE_MIN == 15
TITLE_MAX == 65
DESC_MIN == 70
DESC_MAX == 160
MIN_WORDS_OK == 250
\* run_audit calls discover_internal_links(..., max_new=80)
MAX_NEW == 80

NoStatus == 0 - 1

Range(s) == {s[i] : i \in 1..Len(s)}

Min(a, b) == IF a < b THEN a ELSE b

Max(a, b) == IF a > b THEN a ELSE b

\* ------------------------------------------------------------- utilities
Url(sch, h, p, sp, fr) == [sch |-> sch, h |-> h, p |-> p, sp |-> sp, fr |-> fr]

Href(k, h, p, sp, fr) == [k |-> k, h |-> h, p |-> p, sp |-> sp, fr |-> fr]

\* str.lower() on the authorities of the model
Lower(h) == IF h = "A.COM" THEN "a.com" ELSE h

\* u.strip() removes the space only when it ends the string (no fragment
\* after it); urldefrag then drops the fragment and keeps what precedes it.
norm_url(u) ==
  LET stripped == [u EXCEPT !.sp = (u.sp /\ u.fr)]
  IN  [stripped EXCEPT !.fr = FALSE]

host(url) == IF url.sch = "http" THEN Lower(url.h) ELSE ""

same_host(a, b) == host(a) = host(b)

\* clamp without the clamping
clamp_identity(n, lo, hi) == n

clamp(n, lo, hi) == Max(lo, Min(hi, n))

grade(score) ==
  IF score >= 90 THEN "A"
  ELSE IF score >= 80 THEN "B"
  ELSE IF score >= 70 THEN "C"
  ELSE IF score >= 55 THEN "D"
  ELSE "E"

\* urllib.parse.urljoin(base, href) on the href kinds of the model
urljoin(base, href) ==
  CASE href.k = "abs" -> Url("http", href.h, href.p, href.sp, href.fr)
    [] href.k = "rel" -> Url(base.sch, base.h, href.p, href.sp, href.fr)
    [] href.k = "frag" -> [base EXCEPT !.fr = TRUE]
    [] href.k = "empty" -> base
    [] OTHER -> Url("other", "", 0, FALSE, FALSE)

\* href.startswith(("mailto:", "tel:", "javascript:"))
StartsWithSkippable(href) == href.k \in {"mailto", "tel", "javascript"}

\* href.startswith("#")
StartsWithHash(href) == href.k = "frag"

\* href.startswith("/#"): the root path directly followed by a fragment
StartsWithSlashHash(href) ==
  href.k = "rel" /\ href.p = 0 /\ ~href.sp /\ href.fr

is_anchor_link(href) ==
  IF href.k = "empty" THEN FALSE
  ELSE IF StartsWithHash(href) THEN TRUE
  ELSE IF StartsWithSlashHash(href) THEN TRUE
  ELSE FALSE

\* ------------------------------------------------------------------ models
\* PageAudit(url=..., final_url=..., status=..., load_time_sec=...) with the
\* dataclass defaults for every other field.
PageAudit(url, final_url, status, load_time_sec) ==
  [url |-> url, final_url |-> final_url, status |-> status,
   load_time_sec |-> load_time_sec,
   title |-> 0, meta_description |-> 0, meta_robots |-> "", canonical |-> FALSE,
   lang |-> FALSE, viewport |-> FALSE, og |-> FALSE, twitter |-> FALSE,
   h1 |-> 0, h2 |-> 0, h3 |-> 0, word_count |-> 0,
   internal_links |-> 0, external_links |-> 0, anchor_links |-> 0,
   nofollow_links |-> 0, images |-> 0, images_missing_alt |-> 0,
   schema_types |-> {}, issues |-> <<>>, wins |-> <<>>]

\* SiteAudit(start_url=..., host=...): no pages, the three flags None
SiteAudit(url, h) ==
  [start_url |-> url, host |-> h, pages |-> <<>>,
   robots_ok |-> "None", sitemap_ok |-> "None", llms_ok |-> "None"]

\* ------------------------------------------------------------- extraction
\* Each JSON-LD block is the set of the @type values found in it.
extract_schema_types_from_jsonld_blocks(jsonld_blocks) ==
  UNION {jsonld_blocks[i] : i \in 1..Len(jsonld_blocks)}

\* "noindex" in meta_robots.lower()
HasNoindex(meta_robots) ==
  meta_robots \in {"noindex", "NOINDEX", "noindex,nofollow"}

\* What one pass of the link loop of audit_from_dom does with href: "skip"
\* (continue), or the counters it adds to.
classify_href(final_url, href) ==
  IF href.k = "empty" THEN "skip"
  ELSE IF StartsWithSkippable(href) THEN "skip"
  ELSE IF is_anchor_link(href) THEN "anchor"
  ELSE LET absu == norm_url(urljoin(final_url, href)) IN
    IF absu.sch = "http" /\ same_host(final_url, absu) THEN "internal"
    ELSE IF absu.sch # "http" THEN "internal"
    ELSE "external"

\* the anchors counted apart from the internal links
count_links_anchors_apart(final_url, hrefs) ==
  LET passes(kinds) ==
        Cardinality({i \in 1..Len(hrefs) : classify_href(final_url, hrefs[i]) \in kinds})
  IN  [internal |-> passes({"internal"}),
       external |-> passes({"external"}),
       anchors |-> passes({"anchor"})]

\* The counters after the loop: the passes that added to each.
count_links(final_url, hrefs) ==
  LET passes(kinds) ==
        Cardinality({i \in 1..Len(hrefs) : classify_href(final_url, hrefs[i]) \in kinds})
  IN  [internal |-> passes({"anchor", "internal"}),
       external |-> passes({"external"}),
       anchors |-> passes({"anchor"})]

\* The second pass, over the (href, rel tokens) pairs.
count_nofollow(link_rel_data) ==
  Cardinality({i \in 1..Len(link_rel_data) :
                 /\ link_rel_data[i].href.k # "empty"
                 /\ ~StartsWithSkippable(link_rel_data[i].href)
                 /\ "nofollow" \in link_rel_data[i].rels})

\* The wins/issues rules of audit_from_dom, in the order of the code. Each
\* is [to |-> "wins" | "issues" | "none", text |-> the finding].
rule_title(p) ==
  IF p.title > 0 THEN [to |-> "wins", text |-> "title set"]
  ELSE [to |-> "issues", text |-> "missing title"]

rule_description(p) ==
  IF p.meta_description > 0 THEN [to |-> "wins", text |-> "description set"]
  ELSE [to |-> "issues", text |-> "missing description"]

rule_canonical(p) ==
  IF p.canonical THEN [to |-> "wins", text |-> "canonical set"]
  ELSE [to |-> "issues", text |-> "missing canonical"]

\* the H1 rule with every count other than one reported as too many
rule_h1_not_one(p) ==
  IF p.h1 = 1 THEN [to |-> "wins", text |-> "one H1"]
  ELSE [to |-> "issues", text |-> "more than one H1"]

rule_h1(p) ==
  IF p.h1 = 1 THEN [to |-> "wins", text |-> "one H1"]
  ELSE IF p.h1 = 0 THEN [to |-> "issues", text |-> "missing H1"]
  ELSE [to |-> "issues", text |-> "more than one H1"]

rule_schema(p) ==
  IF p.schema_types # {} THEN [to |-> "wins", text |-> "schema found"]
  ELSE [to |-> "issues", text |-> "schema not found"]

rule_internal_links(p) ==
  IF p.internal_links = 0 THEN [to |-> "issues", text |-> "no internal links"]
  ELSE IF p.internal_links < 3 THEN [to |-> "issues", text |-> "few internal links"]
  ELSE [to |-> "none", text |-> ""]

rule_images(p) ==
  IF p.images > 0 /\ p.images_missing_alt > 0
    THEN [to |-> "issues", text |-> "images without alt"]
  ELSE [to |-> "wins", text |-> "images alt ok"]

rule_social(p) ==
  IF p.og \/ p.twitter THEN [to |-> "wins", text |-> "social metadata set"]
  ELSE [to |-> "issues", text |-> "social metadata not found"]

rule_word_count(p) ==
  IF p.word_count < 80 THEN [to |-> "issues", text |-> "short content"]
  ELSE [to |-> "none", text |-> ""]

rule_noindex(p) ==
  IF p.meta_robots # "" /\ HasNoindex(p.meta_robots)
    THEN [to |-> "issues", text |-> "noindex"]
  ELSE [to |-> "none", text |-> ""]

\* the rules with the H1 rule ahead of the canonical rule
rules_h1_early(p) ==
  <<rule_title(p), rule_description(p), rule_h1(p), rule_canonical(p),
    rule_schema(p), rule_internal_links(p), rule_images(p), rule_social(p),
    rule_word_count(p), rule_noindex(p)>>

rules(p) ==
  <<rule_title(p), rule_description(p), rule_canonical(p), rule_h1(p),
    rule_schema(p), rule_internal_links(p), rule_images(p), rule_social(p),
    rule_word_count(p), rule_noindex(p)>>

apply_rule(p, r) ==
  IF r.to = "wins" THEN [p EXCEPT !.wins = Append(@, r.text)]
  ELSE IF r.to = "issues" THEN [p EXCEPT !.issues = Append(@, r.text)]
  ELSE p

RECURSIVE apply_rules(_, _, _)
apply_rules(p, rs, i) ==
  IF i > Len(rs) THEN p ELSE apply_rules(apply_rule(p, rs[i]), rs, i + 1)

\* html is the record of what BeautifulSoup finds in the markup.
audit_from_dom(url, final_url, status, load_time_sec, html, jsonld_blocks, hrefs, link_rel_data) ==
  LET c == count_links(final_url, hrefs)
      p == [PageAudit(url, final_url, status, load_time_sec) EXCEPT
              !.lang = html.lang, !.viewport = html.viewport,
              !.title = html.title,
              !.meta_description = html.meta_description,
              !.meta_robots = html.meta_robots,
              !.canonical = html.canonical,
              !.og = html.og, !.twitter = html.twitter,
              !.h1 = html.h1, !.h2 = html.h2, !.h3 = html.h3,
              !.word_count = html.word_count,
              !.images = html.images,
              !.images_missing_alt = html.images_missing_alt,
              !.schema_types = extract_schema_types_from_jsonld_blocks(jsonld_blocks),
              !.internal_links = c.internal,
              !.external_links = c.external,
              !.anchor_links = c.anchors,
              !.nofollow_links = count_nofollow(link_rel_data)]
  IN  apply_rules(p, rules(p), 1)

\* ---------------------------------------------------------------- scoring
Preferred == {"Organization", "LocalBusiness", "ProfessionalService", "Person", "WebSite"}

score_meta(p) ==
  LET t == IF p.title > 0
             THEN (IF TITLE_MIN <= p.title /\ p.title <= TITLE_MAX THEN 10 ELSE 6)
             ELSE 0
      d == IF p.meta_description > 0
             THEN (IF DESC_MIN <= p.meta_description /\ p.meta_description <= DESC_MAX
                     THEN 10 ELSE 6)
             ELSE 0
      c == IF p.canonical THEN 5 ELSE 0
  IN  clamp(t + d + c, 0, 25)

\* the content rubric with the H3 term dropped
score_content_no_h3(p) ==
  LET w == IF p.word_count >= MIN_WORDS_OK THEN 12
           ELSE IF p.word_count >= 150 THEN 8
           ELSE IF p.word_count >= 80 THEN 4
           ELSE 0
      a == IF p.h2 >= 1 THEN 6 ELSE 0
      l == IF p.lang THEN 4 ELSE 0
  IN  Max(0, Min(25, w + a + l))

score_content(p) ==
  LET w == IF p.word_count >= MIN_WORDS_OK THEN 12
           ELSE IF p.word_count >= 150 THEN 8
           ELSE IF p.word_count >= 80 THEN 4
           ELSE 0
      a == IF p.h2 >= 1 THEN 6 ELSE 0
      b == IF p.h3 >= 1 THEN 3 ELSE 0
      l == IF p.lang THEN 4 ELSE 0
  IN  clamp(w + a + b + l, 0, 25)

score_structure(p) ==
  LET h == IF p.h1 = 1 THEN 10 ELSE IF p.h1 > 1 THEN 6 ELSE 0
      v == IF p.viewport THEN 5 ELSE 0
  IN  clamp(h + v, 0, 15)

score_schema(p) ==
  LET s == IF p.schema_types # {}
             THEN (IF p.schema_types \cap Preferred # {} THEN 15 ELSE 12)
             ELSE 0
  IN  clamp(s, 0, 15)

\* missing_ratio = images_missing_alt / max(1, images), compared with 0 and 0.25
score_links_media(p) ==
  LET den == Max(1, p.images)
      img == IF p.images = 0 THEN 2
             ELSE IF p.images_missing_alt = 0 THEN 5
             ELSE IF 4 * p.images_missing_alt <= den THEN 3
             ELSE 1
      int == IF p.internal_links >= 3 THEN 3
             ELSE IF p.internal_links >= 1 THEN 2
             ELSE 0
      ext == IF p.external_links >= 1 THEN 2 ELSE 0
  IN  clamp(img + int + ext, 0, 10)

\* "p.status and ...": None and 0 are both falsy
score_basics_perf(p) ==
  LET s == IF p.status # NoStatus /\ p.status # 0 /\ 200 <= p.status /\ p.status < 300
             THEN 4 ELSE 0
      n == IF p.meta_robots # "" /\ HasNoindex(p.meta_robots) THEN 0 - 4 ELSE 0
      t == IF p.load_time_sec < 2000 THEN 6
           ELSE IF p.load_time_sec < 4000 THEN 4
           ELSE IF p.load_time_sec < 6000 THEN 2
           ELSE 0
  IN  clamp(s + n + t, 0, 10)

score_page(p) ==
  LET breakdown == [meta |-> score_meta(p), content |-> score_content(p),
                    structure |-> score_structure(p), schema |-> score_schema(p),
                    links_media |-> score_links_media(p),
                    basics_perf |-> score_basics_perf(p)]
  IN  [total |-> breakdown.meta + breakdown.content + breakdown.structure
                 + breakdown.schema + breakdown.links_media + breakdown.basics_perf,
       breakdown |-> breakdown]

\* ------------------------------------------------------------ aggregation
\* The shares sum(...) / len(pages) are floats. k / n is exact when it is a
\* binary fraction; otherwise it is rounded, and a sum of rounded terms whose
\* exact value is a whole number may come out just below it.
Dyadic(k, n) == \E j \in 0..n : (k * 2^j) % n = 0

\* int(x) for a float x >= 0 whose exact value is num / den: the floor, or
\* one less when the exact value is a whole number and x was rounded.
int_float(num, den, exact) ==
  IF exact \/ num % den # 0 \/ num = 0 THEN {num \div den}
  ELSE {num \div den - 1, num \div den}

RECURSIVE SumLoad(_, _)
SumLoad(pages, i) ==
  IF i > Len(pages) THEN 0 ELSE pages[i].load_time_sec + SumLoad(pages, i + 1)

\* a flag as a condition: None and False are falsy
Truthy(flag) == flag = "True"

NoSectors ==
  [crawlability |-> 0, content |-> 0, schema |-> 0, links_media |-> 0,
   performance |-> 0, social |-> 0]

\* the crawlability points added before the test for an empty page list
sector_scores_flags_first(site) ==
  {[NoSectors EXCEPT !.crawlability =
      (IF Truthy(site.robots_ok) THEN 34 ELSE 0)
      + (IF Truthy(site.sitemap_ok) THEN 33 ELSE 0)
      + (IF Truthy(site.llms_ok) THEN 33 ELSE 0)]}

\* sector_scores: the dictionaries it may return (one, but for the rounding
\* of the float shares).
sector_scores(site) ==
  LET pages == site.pages
      n == Len(pages)
  IN  IF n = 0 THEN {NoSectors}
      ELSE
        LET rast == clamp((IF Truthy(site.robots_ok) THEN 34 ELSE 0)
                          + (IF Truthy(site.sitemap_ok) THEN 33 ELSE 0)
                          + (IF Truthy(site.llms_ok) THEN 33 ELSE 0), 0, 100)
            ok_h1 == Cardinality({i \in 1..n : pages[i].h1 = 1})
            ok_desc == Cardinality({i \in 1..n : pages[i].meta_description > 0})
            ok_title == Cardinality({i \in 1..n : pages[i].title > 0})
            ok_words == Cardinality({i \in 1..n : pages[i].word_count >= 150})
            ok_lang == Cardinality({i \in 1..n : pages[i].lang})
            with_schema == Cardinality({i \in 1..n : pages[i].schema_types # {}})
            ok_alt == Cardinality({i \in 1..n : pages[i].images = 0 \/ pages[i].images_missing_alt = 0})
            ok_internal == Cardinality({i \in 1..n : pages[i].internal_links >= 1})
            ok_social == Cardinality({i \in 1..n : pages[i].og \/ pages[i].twitter})
            total_load == SumLoad(pages, 1)
            perf == IF total_load < 2000 * n THEN 95
                    ELSE IF total_load < 4000 * n THEN 85
                    ELSE IF total_load < 6000 * n THEN 70
                    ELSE 55
            contents == int_float(ok_h1 * 25 + ok_title * 25 + ok_desc * 20
                                  + ok_words * 20 + ok_lang * 10, n,
                                  \A k \in {ok_h1, ok_title, ok_desc, ok_words, ok_lang} :
                                    Dyadic(k, n))
            schemas == int_float(with_schema * 100, n, Dyadic(with_schema, n))
            medias == int_float(ok_alt * 50 + ok_internal * 50, n,
                                Dyadic(ok_alt, n) /\ Dyadic(ok_internal, n))
            socials == int_float(ok_social * 100, n, Dyadic(ok_social, n))
        IN  {[crawlability |-> rast, content |-> clamp(c, 0, 100),
              schema |-> clamp(sc, 0, 100), links_media |-> clamp(lm, 0, 100),
              performance |-> perf, social |-> so] :
               c \in contents, sc \in schemas, lm \in medias, so \in socials}

\* The weighted sum of the sector scores, in hundredths.
WeightedSum(sec) ==
  sec.crawlability * 20 + sec.content * 25 + sec.schema * 20
  + sec.links_media * 15 + sec.performance * 10 + sec.social * 10

\* int(score): the weighted sum cut off, not rounded
overall_score_truncated(sec) == {WeightedSum(sec) \div 100}

\* overall_score for the sector scores sec: int(round(score)). The float
\* sum is within rounding error of the exact one, so it rounds to the
\* nearest integer; at an exact half, round() goes to the even neighbour
\* when the float sum is the half itself and to the nearer one otherwise.
overall_score(sec) ==
  IF WeightedSum(sec) % 100 = 50
    THEN {WeightedSum(sec) \div 100, WeightedSum(sec) \div 100 + 1}
  ELSE {(WeightedSum(sec) + 50) \div 100}

\* ------------------------------------------------------------------ crawl
\* The loop of discover_internal_links over the <a href> of the markup. A
\* pass that is not skipped resolves the href, appends it when it is on the
\* host of final_url, and breaks once len(links) >= max_new: the loop runs
\* the first `last` such passes and returns the links they appended.
discover_internal_links(final_url, soup, max_new) ==
  LET tried == SelectSeq(soup.a, LAMBDA x :
                 ~(x.href.k = "empty" \/ StartsWithSkippable(x.href)
                   \/ StartsWithHash(x.href)))
      absu(i) == norm_url(urljoin(final_url, tried[i].href))
      appended(n) == {i \in 1..n : same_host(final_url, absu(i))}
      breaks == {n \in 1..Len(tried) : Cardinality(appended(n)) >= max_new}
      last == IF breaks = {} THEN Len(tried)
              ELSE CHOOSE n \in breaks : \A m \in breaks : n <= m
      kept == SelectSeq([i \in 1..last |-> i], LAMBDA i : i \in appended(last))
  IN  [j \in 1..Len(kept) |-> absu(kept[j])]

\* a probe that raises counted as reachable
check_endpoint_ok_raise_true(probe) ==
  IF probe = "not ok" THEN "False" ELSE "True"

\* check_endpoint_ok: r.ok of the response, False when the request raises
check_endpoint_ok(probe) ==
  IF probe = "raise" THEN "False"
  ELSE IF probe = "ok" THEN "True"
  ELSE "False"

\* What fetch_page_dom returns for a browser outcome b that did not raise.
fetch_page_dom(b) ==
  [status |-> IF b.resp = NoStatus THEN 0 ELSE b.resp,
   final_url |-> b.url,
   load_time |-> b.elapsed,
   html |-> b.html,
   jsonld_blocks |-> b.jsonld,
   hrefs |-> [i \in 1..Len(SelectSeq(b.html.a, LAMBDA x : x.href.k # "empty"))
                |-> SelectSeq(b.html.a, LAMBDA x : x.href.k # "empty")[i].href],
   link_rel_data |-> b.html.a]

\* the budget test off by one
loop_condition_le(q, pages, budget) == q # <<>> /\ Len(pages) <= budget

\* while queue and len(site.pages) < max_pages
loop_condition(q, pages, budget) == q # <<>> /\ Len(pages) < budget

\* queue.pop(): the last URL instead of the first
queue_pop_last(q) == [url |-> q[Len(q)], rest |-> SubSeq(q, 1, Len(q) - 1)]

\* queue[0]: the URL read and never removed
queue_peek(q) == [url |-> Head(q), rest |-> q]

\* queue.pop(0): the URL taken and the queue left
queue_pop(q) == [url |-> Head(q), rest |-> Tail(q)]

\* the URL never marked
mark_visited_never(seen, url) == seen

\* visited.add(url)
mark_visited(seen, url) == seen \cup {url}

\* a degraded page that keeps the dataclass default status and adds a win
degraded_page_default(url) ==
  [PageAudit(url, url, NoStatus, 0) EXCEPT
     !.issues = Append(@, "could not load"), !.wins = Append(@, "images alt ok")]

\* the page appended when fetch_page_dom raises
degraded_page(url) ==
  [PageAudit(url, url, 0, 0) EXCEPT !.issues = Append(@, "could not load")]

\* the enqueue test without the host test
may_enqueue_any_host(lk, seen, q, start) == lk \notin seen /\ lk \notin Range(q)

\* if lk not in visited and lk not in queue and same_host(start_url, lk)
may_enqueue(lk, seen, q, start) ==
  lk \notin seen /\ lk \notin Range(q) /\ same_host(start, lk)

\* for lk in new_links: if ...: queue.append(lk). When the i-th link is
\* tested the queue holds q and the earlier links that were appended; an
\* earlier link equal to lk was appended exactly when lk passes the other two
\* tests, so testing lk against q and all the earlier links decides the same.
enqueue_links(new_links, seen, q, start) ==
  LET idx == SelectSeq([i \in 1..Len(new_links) |-> i], LAMBDA i :
               may_enqueue(new_links[i], seen, q \o SubSeq(new_links, 1, i - 1), start))
  IN  q \o [j \in 1..Len(idx) |-> new_links[idx[j]]]

\* ----------------------------------------------------------------- inputs
RootUrl == Url("http", "a.com", 0, FALSE, FALSE)

Rel(p) == Href("rel", "", p, FALSE, FALSE)

\* "/p #f": a space between the path and the fragment
RelSpaceFrag(p) == Href("rel", "", p, TRUE, TRUE)

\* "#f"
Anchor == Href("frag", "", 0, FALSE, TRUE)

\* "/#f"
SlashAnchor == Href("rel", "", 0, FALSE, TRUE)

Abs(h, p) == Href("abs", h, p, FALSE, FALSE)

Mailto == Href("mailto", "", 0, FALSE, FALSE)

Tel == Href("tel", "", 0, FALSE, FALSE)

Javascript == Href("javascript", "", 0, FALSE, FALSE)

\* a scheme the prefix test does not name, such as "MAILTO:x@y"
Opaque == Href("opaque", "", 0, FALSE, FALSE)

Empty == Href("empty", "", 0, FALSE, FALSE)

\* <a href=h> without rel tokens
Plain(hs) == [i \in 1..Len(hs) |-> [href |-> hs[i], rels |-> {}]]

\* <a href=h rel="nofollow noopener">
NoFollow(hs) == [i \in 1..Len(hs) |-> [href |-> hs[i], rels |-> {"nofollow", "noopener"}]]

RichHtml(a) ==
  [title |-> 40, meta_description |-> 120, meta_robots |-> "", canonical |-> TRUE,
   lang |-> TRUE, viewport |-> TRUE, og |-> TRUE, twitter |-> FALSE,
   h1 |-> 1, h2 |-> 1, h3 |-> 0, word_count |-> 300,
   images |-> 0, images_missing_alt |-> 0, a |-> a]

PoorHtml(a) ==
  [title |-> 0, meta_description |-> 0, meta_robots |-> "noindex", canonical |-> FALSE,
   lang |-> FALSE, viewport |-> FALSE, og |-> FALSE, twitter |-> FALSE,
   h1 |-> 0, h2 |-> 0, h3 |-> 0, word_count |-> 50,
   images |-> 2, images_missing_alt |-> 1, a |-> a]

FanSize == MAX_NEW + FanExtra

\* The href lists a page of the small world may carry.
SmallHrefLists ==
  {<<Rel(p), Rel(p + 1)>> : p \in 1..(MaxPath - 1)}
  \cup {<<RelSpaceFrag(1), Rel(1)>>,
        <<Anchor, SlashAnchor, Mailto, Tel, Javascript, Opaque, Empty,
          Abs("b.com", 1), Abs("A.COM", 2)>>}

\* The href lists of a page that redirected to another host.
RedirectHrefLists == {<<Abs("a.com", 2), Rel(1)>>}

\* What the browser may do with url: it raises, or it ends on a final URL
\* (the same page, or a redirect to another host) with a rendered document.
BrowserOutcomes(w, url) ==
  IF w = "fan"
    THEN {[raise |-> FALSE, resp |-> 200, url |-> url, elapsed |-> 1500,
           html |-> RichHtml(Plain(
              IF url.p = 0 THEN [i \in 1..FanSize |-> Rel(i)]
              ELSE IF url.p = 1 THEN <<Abs("A.COM", 1), Rel(FanSize)>>
              ELSE <<>>)),
           jsonld |-> <<{"Organization"}>>]}
    ELSE {[raise |-> TRUE, resp |-> NoStatus, url |-> url, elapsed |-> 0,
           html |-> PoorHtml(<<>>), jsonld |-> <<>>]}
         \cup {[raise |-> FALSE, resp |-> 200,
                url |-> Url("http", Lower(url.h), url.p, FALSE, FALSE),
                elapsed |-> 1500, html |-> RichHtml(Plain(hs)),
                jsonld |-> <<{"Organization"}>>] : hs \in SmallHrefLists}
         \cup {[raise |-> FALSE, resp |-> 301,
                url |-> Url("http", "b.com", url.p, FALSE, FALSE),
                elapsed |-> 1500, html |-> RichHtml(Plain(hs)),
                jsonld |-> <<{"Organization"}>>] : hs \in RedirectHrefLists}
         \cup {[raise |-> FALSE, resp |-> NoStatus,
                url |-> Url("http", Lower(url.h), url.p, FALSE, FALSE),
                elapsed |-> 4500, html |-> PoorHtml(Plain(hs)), jsonld |-> <<>>] :
                 hs \in {<<Rel(1)>>}}

\* The start URL as the caller gives it.
StartInputs(w) ==
  IF w = "fan" THEN {Url("http", "a.com", 0, FALSE, FALSE)}
  ELSE {Url("http", "a.com", 0, FALSE, FALSE), Url("http", "A.COM", 1, TRUE, TRUE)}

Budgets(w) == IF w = "fan" THEN {FanSize + 3} ELSE (0 - 1)..MaxBudget

\* What a probe of an endpoint may do: answer ok, answer not ok, or raise.
Probes(w) == IF w = "fan" THEN {"ok"} ELSE {"ok", "not ok", "raise"}

\* ---- the inputs of the page pipeline (audit_from_dom, then score_page)
\* Each group of signals ranges over its values while the other groups take
\* one of two profiles: a well-formed page and a bare one.
MetaVals ==
  [title : {0, 10, 40, 70}, meta_description : {0, 50, 120, 200}, canonical : BOOLEAN]

MetaProfiles ==
  {[title |-> 40, meta_description |-> 120, canonical |-> TRUE],
   [title |-> 0, meta_description |-> 0, canonical |-> FALSE]}

ContentVals == [word_count : {50, 100, 200, 300}, h2 : {0, 1}, h3 : {0, 1}, lang : BOOLEAN]

ContentProfiles ==
  {[word_count |-> 300, h2 |-> 1, h3 |-> 0, lang |-> TRUE],
   [word_count |-> 50, h2 |-> 0, h3 |-> 0, lang |-> FALSE]}

StructureVals == [h1 : {0, 1, 2}, viewport : BOOLEAN]

StructureProfiles == {[h1 |-> 1, viewport |-> TRUE], [h1 |-> 0, viewport |-> FALSE]}

SchemaVals ==
  [jsonld : {<<>>, <<{"Article"}>>, <<{"Organization"}>>, <<{"Article"}, {"Person", "Thing"}>>}]

SchemaProfiles == {[jsonld |-> <<{"Organization"}>>], [jsonld |-> <<>>]}

\* 5 internal links (two of them anchors) and 2 external ones
FiveInTwoOut ==
  <<Rel(1), Rel(2), Rel(3), Anchor, SlashAnchor, Abs("b.com", 1), Abs("b.com", 2)>>

\* anchors, skippable and empty hrefs among a same-host and an external link
MixedHrefs ==
  <<Anchor, Mailto, Rel(1), SlashAnchor, Tel, Empty, Abs("b.com", 1), Javascript>>

MediaVals ==
  [images : {0, 4}, images_missing_alt : {0, 1, 2}, nofollow : BOOLEAN,
   hrefs : {<<>>, <<Rel(1)>>, <<Anchor, Abs("b.com", 1)>>, <<Mailto, Opaque, Empty>>,
            FiveInTwoOut, MixedHrefs}]

MediaProfiles ==
  {[images |-> 0, images_missing_alt |-> 0, nofollow |-> FALSE, hrefs |-> FiveInTwoOut],
   [images |-> 4, images_missing_alt |-> 2, nofollow |-> FALSE, hrefs |-> <<>>]}

BasicsVals ==
  [status : {0, 200, 404}, meta_robots : {"", "index,follow", "NOINDEX"},
   load_time : {1500, 3000, 5000, 7000}]

BasicsProfiles ==
  {[status |-> 200, meta_robots |-> "", load_time |-> 1500],
   [status |-> 0, meta_robots |-> "", load_time |-> 0]}

SocialVals == [og : BOOLEAN, twitter : BOOLEAN]

SocialProfiles == {[og |-> TRUE, twitter |-> FALSE], [og |-> FALSE, twitter |-> FALSE]}

SignalGroups ==
  <<[vals |-> MetaVals, profiles |-> MetaProfiles],
    [vals |-> ContentVals, profiles |-> ContentProfiles],
    [vals |-> StructureVals, profiles |-> StructureProfiles],
    [vals |-> SchemaVals, profiles |-> SchemaProfiles],
    [vals |-> MediaVals, profiles |-> MediaProfiles],
    [vals |-> BasicsVals, profiles |-> BasicsProfiles],
    [vals |-> SocialVals, profiles |-> SocialProfiles]>>

\* the values of group g when group k is the one that ranges
Signals(g, k) == IF g = k THEN SignalGroups[g].vals ELSE SignalGroups[g].profiles

\* What fetch_page_dom hands to audit_from_dom for a page with these signals.
PageInput(m, c, t, j, l, b, o) ==
  fetch_page_dom(
    [raise |-> FALSE, resp |-> b.status, url |-> RootUrl, elapsed |-> b.load_time,
     html |-> [title |-> m.title, meta_description |-> m.meta_description,
               meta_robots |-> b.meta_robots, canonical |-> m.canonical,
               lang |-> c.lang, viewport |-> t.viewport,
               og |-> o.og, twitter |-> o.twitter,
               h1 |-> t.h1, h2 |-> c.h2, h3 |-> c.h3, word_count |-> c.word_count,
               images |-> l.images, images_missing_alt |-> l.images_missing_alt,
               a |-> IF l.nofollow THEN NoFollow(l.hrefs) ELSE Plain(l.hrefs)],
     jsonld |-> j.jsonld])

\* PageAudit objects that no extraction produced.
DirectPages ==
  {PageAudit(RootUrl, RootUrl, NoStatus, 0),
   [PageAudit(RootUrl, RootUrl, NoStatus, 9000) EXCEPT
      !.meta_robots = "noindex", !.images = 2, !.images_missing_alt = 5,
      !.internal_links = 0 - 1],
   [PageAudit(RootUrl, RootUrl, 250, 0 - 5) EXCEPT
      !.title = 500, !.meta_description = 500, !.canonical = TRUE, !.lang = TRUE,
      !.viewport = TRUE, !.h1 = 7, !.h2 = 9, !.h3 = 9, !.word_count = 100000,
      !.schema_types = {"Organization", "Thing"}, !.images = 3,
      !.internal_links = 1000, !.external_links = 1000]}

\* ------------------------------------------------------------------ state
VARIABLES
  pc,         \* where run_audit (or the page pipeline) stands
  world,      \* which web the browser sees
  max_pages,  \* the page budget
  site,       \* the SiteAudit
  visited,    \* the visited set
  queue,      \* the frontier queue
  fetched,    \* history: the URLs handed to fetch_page_dom, in order
  enqueued,   \* history: the URLs put on the queue, in order
  web,        \* history: the browser's outcome for each URL fetched
  probe,      \* history: the last endpoint probe and what it did
  dom,        \* page pipeline: what fetch_page_dom returned for the page
  page,       \* page pipeline: the PageAudit
  scored,     \* page pipeline: <<score_page(page)>> once scored
  report      \* aggregation: <<sector scores and overall score>> once computed

vars == <<pc, world, max_pages, site, visited, queue, fetched, enqueued, web,
          probe, dom, page, scored, report>>

Init ==
  \E w \in {"small", "fan"} : \E raw \in StartInputs(w) : \E budget \in Budgets(w) :
    LET start_url == norm_url(raw) IN
      /\ pc = "robots"
      /\ world = w
      /\ max_pages = budget
      /\ site = SiteAudit(start_url, host(start_url))
      /\ visited = {}
      /\ queue = <<start_url>>
      /\ fetched = <<>>
      /\ enqueued = <<start_url>>
      /\ web = <<>>
      /\ probe = <<>>
      /\ dom = <<>>
      /\ page = PageAudit(RootUrl, RootUrl, NoStatus, 0)
      /\ scored = <<>>
      /\ report = <<>>

pipeline == <<dom, page, scored, report>>

CheckRobots ==
  /\ pc = "robots"
  /\ \E did \in Probes(world) :
       /\ site' = [site EXCEPT !.robots_ok = check_endpoint_ok(did)]
       /\ probe' = <<[flag |-> "robots", did |-> did]>>
  /\ pc' = "sitemap"
  /\ UNCHANGED <<world, max_pages, visited, queue, fetched, enqueued, web, pipeline>>

CheckSitemap ==
  /\ pc = "sitemap"
  /\ \E did \in Probes(world) :
       /\ site' = [site EXCEPT !.sitemap_ok = check_endpoint_ok(did)]
       /\ probe' = <<[flag |-> "sitemap", did |-> did]>>
  /\ pc' = "llms"
  /\ UNCHANGED <<world, max_pages, visited, queue, fetched, enqueued, web, pipeline>>

CheckLlms ==
  /\ pc = "llms"
  /\ \E did \in Probes(world) :
       /\ site' = [site EXCEPT !.llms_ok = check_endpoint_ok(did)]
       /\ probe' = <<[flag |-> "llms", did |-> did]>>
  /\ pc' = "loop"
  /\ UNCHANGED <<world, max_pages, visited, queue, fetched, enqueued, web, pipeline>>

\* An iteration that pops a URL already visited: continue.
SkipVisited ==
  /\ pc = "loop"
  /\ loop_condition(queue, site.pages, max_pages)
  /\ LET d == queue_pop(queue)
         url == norm_url(d.url)
     IN  /\ url \in visited
         /\ queue' = d.rest
  /\ UNCHANGED <<pc, world, max_pages, site, visited, fetched, enqueued, web,
                 probe, pipeline>>

\* An iteration in which fetch_page_dom raises.
FetchFails ==
  /\ pc = "loop"
  /\ loop_condition(queue, site.pages, max_pages)
  /\ LET d == queue_pop(queue)
         url == norm_url(d.url)
     IN  /\ url \notin visited
         /\ \E b \in BrowserOutcomes(world, url) :
              /\ b.raise
              /\ web' = (url :> b) @@ web
         /\ visited' = mark_visited(visited, url)
         /\ fetched' = Append(fetched, url)
         /\ site' = [site EXCEPT !.pages = Append(@, degraded_page(url))]
         /\ queue' = d.rest
  /\ UNCHANGED <<pc, world, max_pages, enqueued, probe, pipeline>>

\* An iteration in which the page loads: audit it, then discover its links.
FetchLoads ==
  /\ pc = "loop"
  /\ loop_condition(queue, site.pages, max_pages)
  /\ LET d == queue_pop(queue)
         url == norm_url(d.url)
     IN  /\ url \notin visited
         /\ \E b \in BrowserOutcomes(world, url) :
              /\ ~b.raise
              /\ LET r == fetch_page_dom(b)
                     pd == audit_from_dom(url, r.final_url, r.status, r.load_time,
                                          r.html, r.jsonld_blocks, r.hrefs,
                                          r.link_rel_data)
                     new_links == discover_internal_links(r.final_url, r.html, MAX_NEW)
                     q == enqueue_links(new_links, mark_visited(visited, url), d.rest,
                                        site.start_url)
                 IN  /\ web' = (url :> b) @@ web
                     /\ site' = [site EXCEPT !.pages = Append(@, pd)]
                     /\ queue' = q
                     /\ enqueued' = enqueued \o SubSeq(q, Len(d.rest) + 1, Len(q))
         /\ visited' = mark_visited(visited, url)
         /\ fetched' = Append(fetched, url)
  /\ UNCHANGED <<pc, world, max_pages, probe, pipeline>>

\* The loop ends: the browser is closed and the SiteAudit returned.
Finish ==
  /\ pc = "loop"
  /\ ~loop_condition(queue, site.pages, max_pages)
  /\ pc' = "done"
  /\ UNCHANGED <<world, max_pages, site, visited, queue, fetched, enqueued, web,
                 probe, pipeline>>

Next ==
  \/ CheckRobots
  \/ CheckSitemap
  \/ CheckLlms
  \/ SkipVisited
  \/ FetchFails
  \/ FetchLoads
  \/ Finish

Spec == Init /\ [][Next]_vars

\* The runs in which every collaborator call returns or times out, so that a
\* step of run_audit that can be taken is taken. Liveness is checked over the
\* small world, where the browser's outcomes are free; the fan world is one
\* fixed run.
SmallInit == Init /\ world = "small"

FairSpec == SmallInit /\ [][Next]_vars /\ WF_vars(Next)

\* ---------------------------------------------------------- page pipeline
\* One page through audit_from_dom and score_page, for every input above
\* and for the degraded page that run_audit builds itself.
InitPage ==
  /\ \/ /\ pc = "extract"
        /\ \E k \in 1..Len(SignalGroups) :
             \E m \in Signals(1, k), c \in Signals(2, k), t \in Signals(3, k),
                j \in Signals(4, k), l \in Signals(5, k), b \in Signals(6, k),
                o \in Signals(7, k) :
               dom = PageInput(m, c, t, j, l, b, o)
        /\ page = PageAudit(RootUrl, RootUrl, NoStatus, 0)
     \/ /\ pc = "score"
        /\ dom = <<>>
        /\ page \in DirectPages \cup {degraded_page(RootUrl)}
  /\ scored = <<>>
  /\ report = <<>>
  /\ world = "page"
  /\ max_pages = 0
  /\ site = SiteAudit(RootUrl, host(RootUrl))
  /\ visited = {}
  /\ queue = <<>>
  /\ fetched = <<>>
  /\ enqueued = <<>>
  /\ web = <<>>
  /\ probe = <<>>

crawl == <<world, max_pages, site, visited, queue, fetched, enqueued, web, probe>>

Extract ==
  /\ pc = "extract"
  /\ page' = audit_from_dom(RootUrl, dom.final_url, dom.status, dom.load_time,
                            dom.html, dom.jsonld_blocks, dom.hrefs, dom.link_rel_data)
  /\ pc' = "score"
  /\ UNCHANGED <<dom, scored, report, crawl>>

ScorePage ==
  /\ pc = "score"
  /\ scored' = <<score_page(page)>>
  /\ pc' = "scored"
  /\ UNCHANGED <<dom, page, report, crawl>>

NextPage ==
  \/ Extract
  \/ ScorePage

SpecPage == InitPage /\ [][NextPage]_vars

\* ------------------------------------------------------------ aggregation
\* The pages a SiteAudit may hold: audited pages of several shapes and the
\* degraded page of run_audit.
SitePages ==
  LET rich(g) == CHOOSE x \in SignalGroups[g].profiles : x = x
      pick(g, good) ==
        CHOOSE x \in SignalGroups[g].profiles : (x = rich(g)) = good
      made(m, c, t, j, l, b, o, load, st) ==
        LET d == PageInput(pick(1, m), pick(2, c), pick(3, t), pick(4, j),
                           pick(5, l),
                           [status |-> st, meta_robots |-> "", load_time |-> load],
                           pick(7, o))
        IN  audit_from_dom(RootUrl, d.final_url, d.status, d.load_time, d.html,
                           d.jsonld_blocks, d.hrefs, d.link_rel_data)
  IN  {made(TRUE, TRUE, TRUE, TRUE, TRUE, TRUE, TRUE, 1500, 200),
       made(TRUE, TRUE, TRUE, TRUE, TRUE, TRUE, TRUE, 7000, 200),
       made(FALSE, FALSE, FALSE, FALSE, FALSE, FALSE, FALSE, 3000, 0),
       made(TRUE, FALSE, TRUE, FALSE, FALSE, TRUE, TRUE, 3000, 404),
       made(FALSE, TRUE, FALSE, TRUE, TRUE, FALSE, FALSE, 5000, 200),
       degraded_page(RootUrl)}

SiteFlags == {"None", "True", "False"}

InitSite ==
  /\ pc = "aggregate"
  /\ world = "site"
  /\ \E n \in 0..MaxSitePages : \E ps \in [1..n -> SitePages] :
       \E r \in SiteFlags, sm \in SiteFlags, l \in SiteFlags :
         site = [SiteAudit(RootUrl, host(RootUrl)) EXCEPT
                   !.pages = ps, !.robots_ok = r, !.sitemap_ok = sm, !.llms_ok = l]
  /\ report = <<>>
  /\ max_pages = 0
  /\ visited = {}
  /\ queue = <<>>
  /\ fetched = <<>>
  /\ enqueued = <<>>
  /\ web = <<>>
  /\ probe = <<>>
  /\ dom = <<>>
  /\ page = PageAudit(RootUrl, RootUrl, NoStatus, 0)
  /\ scored = <<>>

\* write_report: sector_scores(site) and overall_score(site)
Aggregate ==
  /\ pc = "aggregate"
  /\ \E sec \in sector_scores(site) : \E overall \in overall_score(sec) :
       report' = <<[sectors |-> sec, overall |-> overall]>>
  /\ pc' = "aggregated"
  /\ UNCHANGED <<dom, page, scored, crawl>>

NextSite == Aggregate

SpecSite == InitSite /\ [][NextSite]_vars

\* ------------------------------------------------------------- properties
PageUrls == [i \in 1..Len(site.pages) |-> site.pages[i].url]

NoDuplicates(s) == Cardinality(Range(s)) = Len(s)

IsPrefix(s, t) == Len(s) <= Len(t) /\ \A i \in 1..Len(s) : s[i] = t[i]

\* s without the later occurrences of a value
FirstSeen(s) ==
  LET idx == SelectSeq([i \in 1..Len(s) |-> i], LAMBDA i : \A j \in 1..(i - 1) : s[j] # s[i])
  IN  [k \in 1..Len(idx) |-> s[idx[k]]]

\* The URL fetched for a queue entry: the code normalizes it once more.
Fetchable(u) == norm_url(u)

\* The links of a loaded page as a reader of the page sees them: every href
\* that is neither empty, nor skippable, nor a "#" anchor, resolved against
\* the final URL, when it is on the host of the start URL.
NaturalLinks(b) ==
  IF b.raise THEN {}
  ELSE {u \in {Fetchable(norm_url(urljoin(b.url, b.html.a[i].href))) :
                 i \in {n \in 1..Len(b.html.a) :
                          ~(b.html.a[n].href.k = "empty"
                            \/ StartsWithSkippable(b.html.a[n].href)
                            \/ StartsWithHash(b.html.a[n].href))}} :
          u.sch = "http" /\ same_host(site.start_url, u)}

\* The links of a loaded page that the crawl follows: those that
\* discover_internal_links returns and that pass the start-host test.
FollowedLinks(b) ==
  IF b.raise THEN {}
  ELSE LET r == fetch_page_dom(b)
           found == discover_internal_links(r.final_url, r.html, MAX_NEW)
       IN  {Fetchable(found[i]) :
              i \in {n \in 1..Len(found) : same_host(site.start_url, found[n])}}

LinksOf(kind, u) ==
  IF u \notin DOMAIN web THEN {}
  ELSE IF kind = "natural" THEN NaturalLinks(web[u])
  ELSE FollowedLinks(web[u])

\* Breadth-first distances from the start URL over the pages fetched so far.
RECURSIVE Distances(_, _, _, _)
Distances(kind, frontier, known, d) ==
  IF frontier = {} THEN known
  ELSE LET now == [u \in frontier |-> d] @@ known
       IN  Distances(kind, (UNION {LinksOf(kind, u) : u \in frontier}) \ DOMAIN now,
                     now, d + 1)

Depths(kind) == Distances(kind, {Fetchable(site.start_url)}, <<>>, 0)

\* C1 (as claimed): no URL is fetched twice, the queue holds neither
\* duplicates nor visited URLs, and no two PageRecords share a requested URL.
C1_NoRefetch ==
  /\ NoDuplicates(fetched)
  /\ NoDuplicates(queue)
  /\ Range(queue) \cap visited = {}
  /\ NoDuplicates(PageUrls)

\* C2 (as claimed): there are never more PageRecords than max_pages, and a
\* finished run has exactly min(max_pages, number of same-host URLs reachable
\* from the start URL over the links of the pages) of them.
C2_HardCapExact ==
  /\ Len(site.pages) <= max_pages
  /\ pc = "done" =>
       Len(site.pages) = Min(max_pages, Cardinality(DOMAIN Depths("natural")))

\* C2 (amended): there are never more PageRecords than max(max_pages, 0),
\* and a finished run has exactly min(max(max_pages, 0), number of URLs
\* reachable from the start URL over the links the crawl follows) of them.
C2_HardCap ==
  /\ Len(site.pages) <= Max(max_pages, 0)
  /\ pc = "done" =>
       Len(site.pages) = Min(Max(max_pages, 0), Cardinality(DOMAIN Depths("followed")))

\* C2 witness: a run that ended on its budget with URLs still queued.
C2_Witness ==
  pc = "done" /\ max_pages >= 2 /\ Len(site.pages) = max_pages /\ queue # <<>>

\* the URLs in the order of their first discovery
DiscoveryOrder == FirstSeen([i \in 1..Len(enqueued) |-> Fetchable(enqueued[i])])

\* a page is audited only after every known URL nearer to the start URL
ShallowFirst(kind) ==
  LET D == Depths(kind) IN
    \A i \in 1..Len(PageUrls) : \A v \in DOMAIN D :
      D[v] < D[PageUrls[i]] => \E j \in 1..(i - 1) : PageUrls[j] = v

\* C3 (as claimed): the PageRecords are in the order of first discovery, and
\* every URL at link-depth d is audited before any URL at depth d+1.
C3_FifoByLinkDepth == IsPrefix(PageUrls, DiscoveryOrder) /\ ShallowFirst("natural")

\* C3 (amended): the PageRecords are in the order of first discovery, and
\* every URL at depth d over the links the crawl follows is audited before
\* any URL at depth d+1.
C3_Fifo == IsPrefix(PageUrls, DiscoveryOrder) /\ ShallowFirst("followed")

\* C3 witness: the budget stopped the run after a page of depth 1 while a
\* URL of depth 2 was still queued.
C3_Witness ==
  /\ pc = "done" /\ Len(site.pages) = max_pages /\ queue # <<>>
  /\ \E i \in 1..Len(PageUrls) : Depths("followed")[PageUrls[i]] = 1
  /\ \E k \in 1..Len(queue) : Depths("followed")[Fetchable(queue[k])] = 2

Degraded(p) ==
  p.status = 0 /\ p.load_time_sec = 0 /\ Len(p.issues) = 1 /\ p.wins = <<>>

FailedToLoad(u) == u \in DOMAIN web /\ web[u].raise

C4_Recorded ==
  \A i \in 1..Len(PageUrls) :
    FailedToLoad(PageUrls[i]) =>
      /\ Degraded(site.pages[i])
      /\ PageUrls[i] \in visited
      /\ Cardinality({k \in 1..Len(fetched) : fetched[k] = PageUrls[i]}) = 1

C4_Continues ==
  (Len(fetched') = Len(fetched) + 1 /\ web'[fetched'[Len(fetched')]].raise) =>
    /\ pc' = "loop"
    /\ queue' = Tail(queue)
    /\ Len(site'.pages) = Len(site.pages) + 1
    /\ Degraded(site'.pages[Len(site'.pages)])

\* C4: a fetch that raises leaves a degraded PageRecord (status 0, load time
\* 0, one issue, no positive finding), its URL stays visited and is fetched
\* once only, and the loop goes on with the rest of the queue.
C4_FetchFailure == []C4_Recorded /\ [][C4_Continues]_vars

\* C4 witness: a page failed to load and a later page loaded.
C4_Witness ==
  \E i, j \in 1..Len(PageUrls) :
    i < j /\ FailedToLoad(PageUrls[i]) /\ ~FailedToLoad(PageUrls[j])

C6_AnchorsNeverEnqueued ==
  [][\A n \in (Len(enqueued) + 1)..Len(enqueued') :
       LET b == web'[fetched'[Len(fetched')]] IN
         \E i \in 1..Len(b.html.a) :
           /\ b.html.a[i].href.k # "empty"
           /\ ~StartsWithSkippable(b.html.a[i].href)
           /\ ~is_anchor_link(b.html.a[i].href)
           /\ norm_url(urljoin(b.url, b.html.a[i].href)) = enqueued'[n]]_vars

\* C7: every URL on the queue and every requested URL of a PageRecord is an
\* http URL on the host of the start URL, case-insensitively.
C7_HostScoped ==
  \A u \in Range(queue) \cup Range(PageUrls) \cup Range(enqueued) :
    u.sch = "http" /\ host(u) = site.host /\ Lower(u.h) = Lower(site.start_url.h)

\* C7 witness: a page redirected to another host, another page carried
\* mailto:, tel: and javascript: hrefs, and URLs are still queued.
C7_Witness ==
  /\ queue # <<>>
  /\ \E i \in 1..Len(site.pages) : host(site.pages[i].final_url) # site.host
  /\ \E u \in DOMAIN web : \E i \in 1..Len(web[u].html.a) :
       StartsWithSkippable(web[u].html.a[i].href)

Flags == <<site.robots_ok, site.sitemap_ok, site.llms_ok>>

\* how many flags are set at each point of run_audit
FlagsSet ==
  CASE pc = "robots" -> 0
    [] pc = "sitemap" -> 1
    [] pc = "llms" -> 2
    [] OTHER -> 3

FlagOf(name) ==
  CASE name = "robots" -> site.robots_ok
    [] name = "sitemap" -> site.sitemap_ok
    [] OTHER -> site.llms_ok

C8_Checked ==
  /\ \A k \in 1..3 : (Flags[k] \in {"True", "False"}) <=> (k <= FlagsSet)
  /\ \A k \in 1..3 : (Flags[k] = "None") <=> (k > FlagsSet)
  /\ (fetched # <<>> \/ site.pages # <<>> \/ visited # {}) => pc \in {"loop", "done"}
  /\ probe # <<>> =>
       FlagOf(probe[1].flag) = (IF probe[1].did = "ok" THEN "True" ELSE "False")

C8_SetOnce ==
  /\ \A k \in 1..3 : Flags[k] # "None" => Flags'[k] = Flags[k]
  /\ pc \in {"loop", "done"} => (Flags' = Flags /\ probe' = probe)
  /\ probe' # probe => pc' \in {"sitemap", "llms", "loop"}

\* C8: the three endpoint flags are set once each, in order, before the
\* first page is dequeued; a probe that is not ok or raises gives False and
\* the run goes on; the crawl loop never changes a flag.
C8_EndpointChecks == []C8_Checked /\ [][C8_SetOnce]_vars

\* C8 witness: a finished run with pages whose last probe raised while an
\* earlier one was ok.
C8_Witness ==
  /\ pc = "done" /\ Len(site.pages) >= 2
  /\ probe[1].did = "raise" /\ site.robots_ok = "True" /\ site.llms_ok = "False"

\* C9: the total is in [0,100], each category is within its ceiling, and the
\* six categories add up to the total.
C9_ScoreBounds ==
  scored # <<>> =>
    LET b == scored[1].breakdown IN
      /\ scored[1].total \in 0..100
      /\ b.meta \in 0..25 /\ b.content \in 0..25 /\ b.structure \in 0..15
      /\ b.schema \in 0..15 /\ b.links_media \in 0..10 /\ b.basics_perf \in 0..10
      /\ scored[1].total = b.meta + b.content + b.structure + b.schema
                           + b.links_media + b.basics_perf

\* C9 witness: a scored noindex page without a 2xx status that loaded slowly.
C9_Witness ==
  /\ scored # <<>>
  /\ HasNoindex(page.meta_robots) /\ page.load_time_sec >= 6000
  /\ ~(200 <= page.status /\ page.status < 300)

Scenario1(p) ==
  /\ p.title = 40 /\ p.meta_description = 120 /\ p.canonical
  /\ p.h1 = 1 /\ p.word_count = 300 /\ p.h2 = 1 /\ p.lang /\ p.viewport
  /\ Cardinality(p.schema_types) = 1 /\ p.schema_types \subseteq Preferred
  /\ p.internal_links = 5 /\ p.external_links = 2 /\ p.images = 0
  /\ p.status = 200 /\ p.load_time_sec = 1500

\* C10 (as claimed): the scenario page scores meta 25, content 25,
\* structure 15, schema 15, basics_perf 10, and its total has grade A.
C10_Scenario1AsClaimed ==
  (scored # <<>> /\ Scenario1(page)) =>
    LET b == scored[1].breakdown IN
      /\ b.meta = 25 /\ b.content = 25 /\ b.structure = 15 /\ b.schema = 15
      /\ b.basics_perf = 10
      /\ grade(scored[1].total) = "A"

\* C10 (amended): the scenario page scores meta 25, structure 15 and
\* schema 15; content 25 with an H3 but 22 without one; basics_perf 10
\* without a noindex directive but 6 with one; its total has grade A.
C10_Scenario1 ==
  (scored # <<>> /\ Scenario1(page)) =>
    LET b == scored[1].breakdown IN
      /\ b.meta = 25 /\ b.structure = 15 /\ b.schema = 15
      /\ b.content = (IF page.h3 >= 1 THEN 25 ELSE 22)
      /\ b.basics_perf = (IF HasNoindex(page.meta_robots) THEN 6 ELSE 10)
      /\ grade(scored[1].total) = "A"

\* C10 witness: the scenario page with neither an H3 nor a noindex directive,
\* scored.
C10_Witness ==
  /\ scored # <<>> /\ Scenario1(page)
  /\ page.h3 = 0 /\ ~HasNoindex(page.meta_robots)

Scenario2(p) ==
  /\ p.title = 0 /\ p.meta_description = 0 /\ ~p.canonical
  /\ p.h1 = 0 /\ p.word_count = 50 /\ p.schema_types = {}
  /\ p.internal_links = 0 /\ p.status = 0

\* the points score_page gives for the load time (milliseconds)
LoadPoints(ms) ==
  IF ms < 2000 THEN 6 ELSE IF ms < 4000 THEN 4 ELSE IF ms < 6000 THEN 2 ELSE 0

\* C11 (as claimed): the scenario page scores meta 0, structure 0, schema 0
\* and basics_perf 0, its total has grade E, and its issues hold the
\* missing-title and the missing-H1 findings.
C11_Scenario2AsClaimed ==
  (scored # <<>> /\ Scenario2(page)) =>
    LET b == scored[1].breakdown IN
      /\ b.meta = 0 /\ b.structure = 0 /\ b.schema = 0 /\ b.basics_perf = 0
      /\ grade(scored[1].total) = "E"
      /\ {"missing title", "missing H1"} \subseteq Range(page.issues)

\* C11 (amended): the scenario page scores meta 0 and schema 0; structure 0
\* without a viewport but 5 with one; basics_perf the points of its load
\* time (6 under 2 s, 4 under 4 s, 2 under 6 s, else 0) less 4 for a noindex
\* directive, never below 0; its total has grade E, and its issues hold the
\* missing-title and the missing-H1 findings.
C11_Scenario2 ==
  (scored # <<>> /\ Scenario2(page)) =>
    LET b == scored[1].breakdown IN
      /\ b.meta = 0 /\ b.schema = 0
      /\ b.structure = (IF page.viewport THEN 5 ELSE 0)
      /\ b.basics_perf =
           Max(0, LoadPoints(page.load_time_sec)
                  - (IF HasNoindex(page.meta_robots) THEN 4 ELSE 0))
      /\ grade(scored[1].total) = "E"
      /\ {"missing title", "missing H1"} \subseteq Range(page.issues)

\* C11 witness: the scenario page, extracted and scored, that loaded in
\* under 2 s without a viewport.
C11_Witness ==
  /\ scored # <<>> /\ Scenario2(page) /\ dom # <<>>
  /\ page.load_time_sec < 2000 /\ ~page.viewport

\* C12: for a SiteAudit without pages the six sector scores and the overall
\* score are 0, whatever the three flags are.
C12_ZeroPages ==
  (report # <<>> /\ site.pages = <<>>) =>
    LET sec == report[1].sectors IN
      /\ sec.crawlability = 0 /\ sec.content = 0 /\ sec.schema = 0
      /\ sec.links_media = 0 /\ sec.performance = 0 /\ sec.social = 0
      /\ report[1].overall = 0

\* C12 witness: the aggregation ran on a SiteAudit without pages whose three
\* endpoints were all reachable.
C12_Witness ==
  /\ report # <<>> /\ site.pages = <<>>
  /\ site.robots_ok = "True" /\ site.sitemap_ok = "True" /\ site.llms_ok = "True"

\* C14: each sector score is in [0,100]; the overall score is in [0,100] and
\* is an integer nearest to 0.20 crawlability + 0.25 content + 0.20 schema
\* + 0.15 links&media + 0.10 performance + 0.10 social.
C14_Overall ==
  report # <<>> =>
    LET sec == report[1].sectors
        hundredths == 20 * sec.crawlability + 25 * sec.content + 20 * sec.schema
                      + 15 * sec.links_media + 10 * sec.performance + 10 * sec.social
        diff == 100 * report[1].overall - hundredths
    IN  /\ \A v \in {sec.crawlability, sec.content, sec.schema, sec.links_media,
                      sec.performance, sec.social} : v \in 0..100
        /\ report[1].overall \in 0..100
        /\ diff \in (0 - 50)..50

\* C14 witness: the aggregation ran on a SiteAudit with pages, some of its
\* endpoints reachable, and a weighted sum that is no whole number.
C14_Witness ==
  /\ report # <<>> /\ Len(site.pages) >= 2
  /\ site.robots_ok = "True" /\ site.llms_ok = "False"
  /\ WeightedSum(report[1].sectors) % 100 \notin {0, 50}
  /\ report[1].sectors.content \notin {0, 100}

\* the <a href> of the page that was extracted
Anchors == dom.html.a

\* an href that is empty, or begins with mailto:, tel: or javascript:
Skipped(h) == h.k = "empty" \/ StartsWithSkippable(h)

\* an href that begins with "#" or with "/#"
AnchorHref(h) == StartsWithHash(h) \/ StartsWithSlashHash(h)

\* C13: anchor_links is the number of anchor hrefs; every href that is
\* neither skippable nor empty is counted once, as internal or as external,
\* and an anchor always as internal; skippable and empty hrefs are counted
\* nowhere (nor as nofollow); so internal + external >= anchor.
C13_LinkCounts ==
  (dom # <<>> /\ pc \in {"score", "scored"}) =>
    LET anchors == {i \in 1..Len(Anchors) :
                      ~Skipped(Anchors[i].href) /\ AnchorHref(Anchors[i].href)}
        others == {i \in 1..Len(Anchors) :
                     ~Skipped(Anchors[i].href) /\ ~AnchorHref(Anchors[i].href)}
    IN  /\ page.anchor_links = Cardinality(anchors)
        /\ page.internal_links >= Cardinality(anchors)
        /\ page.external_links <= Cardinality(others)
        /\ page.internal_links + page.external_links
             = Cardinality(anchors) + Cardinality(others)
        /\ page.internal_links + page.external_links >= page.anchor_links
        /\ page.nofollow_links =
             Cardinality({i \in anchors \cup others : "nofollow" \in Anchors[i].rels})

\* C13 witness: an extracted page whose links are anchors of both forms,
\* mailto:, tel:, javascript: and empty hrefs, one same-host and one external
\* link, all marked nofollow.
C13_Witness ==
  /\ dom # <<>> /\ pc = "score"
  /\ [i \in 1..Len(Anchors) |-> Anchors[i].href] = MixedHrefs
  /\ page.nofollow_links > 0

\* The findings of each rule, in the order of the rules.
RuleFindings ==
  <<{"title set", "missing title"},
    {"description set", "missing description"},
    {"canonical set", "missing canonical"},
    {"one H1", "missing H1", "more than one H1"},
    {"schema found", "schema not found"},
    {"no internal links", "few internal links"},
    {"images alt ok", "images without alt"},
    {"social metadata set", "social metadata not found"},
    {"short content"},
    {"noindex"}>>

\* the rule a finding comes from
RuleOf(text) == CHOOSE k \in 1..Len(RuleFindings) : text \in RuleFindings[k]

\* a list of findings follows the order of the rules, one finding a rule
InRuleOrder(list) ==
  \A i, j \in 1..Len(list) : i < j => RuleOf(list[i]) < RuleOf(list[j])

\* what a finding says of the page
Says(text, p) ==
  CASE text = "title set" -> p.title > 0
    [] text = "missing title" -> p.title = 0
    [] text = "description set" -> p.meta_description > 0
    [] text = "missing description" -> p.meta_description = 0
    [] text = "canonical set" -> p.canonical
    [] text = "missing canonical" -> ~p.canonical
    [] text = "one H1" -> p.h1 = 1
    [] text = "missing H1" -> p.h1 = 0
    [] text = "more than one H1" -> p.h1 > 1
    [] text = "schema found" -> p.schema_types # {}
    [] text = "schema not found" -> p.schema_types = {}
    [] text = "no internal links" -> p.internal_links = 0
    [] text = "few internal links" -> p.internal_links \in {1, 2}
    [] text = "images alt ok" -> ~(p.images > 0 /\ p.images_missing_alt > 0)
    [] text = "images without alt" -> p.images > 0 /\ p.images_missing_alt > 0
    [] text = "social metadata set" -> p.og \/ p.twitter
    [] text = "social metadata not found" -> ~(p.og \/ p.twitter)
    [] text = "short content" -> p.word_count < 80
    [] text = "noindex" -> HasNoindex(p.meta_robots)

PositiveFindings ==
  {"title set", "description set", "canonical set", "one H1", "schema found",
   "images alt ok", "social metadata set"}

Extracted == dom # <<>> /\ pc \in {"score", "scored"}

\* the findings of the page that come from rule k
FindingsOf(k) == RuleFindings[k] \cap (Range(page.wins) \cup Range(page.issues))

\* every finding is true of the page, each in the list of its kind, both
\* lists in the order of the rules
FindingsSound ==
  /\ \A t \in Range(page.wins) : t \in PositiveFindings /\ Says(t, page)
  /\ \A t \in Range(page.issues) :
       t \in (UNION Range(RuleFindings)) \ PositiveFindings /\ Says(t, page)
  /\ InRuleOrder(page.wins) /\ InRuleOrder(page.issues)

\* C15 (as claimed): the rules run in their order and each of the ten rules
\* appends exactly one finding; a finding depends on its own rule's fields
\* only.
C15_OneFindingPerRule ==
  Extracted =>
    /\ FindingsSound
    /\ \A k \in 1..Len(RuleFindings) : Cardinality(FindingsOf(k)) = 1
    /\ Len(page.wins) + Len(page.issues) = Len(RuleFindings)

\* C15 (amended): the rules run in their order; the title, description,
\* canonical, H1, structured-data, image-alt and social rules append exactly
\* one finding each; the internal-links rule appends one issue only under 3
\* internal links, the word-count rule only under 80 words, the noindex rule
\* only for a noindex directive; a finding depends on its own rule's fields
\* only.
C15_Findings ==
  Extracted =>
    /\ FindingsSound
    /\ \A k \in 1..Len(RuleFindings) :
         Cardinality(FindingsOf(k)) =
           (IF \E t \in RuleFindings[k] : Says(t, page) THEN 1 ELSE 0)
    /\ \A k \in {1, 2, 3, 4, 5, 7, 8} : Cardinality(FindingsOf(k)) = 1
    /\ FindingsOf(6) = {} <=> page.internal_links >= 3
    /\ FindingsOf(9) = {} <=> page.word_count >= 80
    /\ FindingsOf(10) = {} <=> ~HasNoindex(page.meta_robots)
    /\ Len(page.wins) + Len(page.issues)
         = Cardinality({k \in 1..Len(RuleFindings) : FindingsOf(k) # {}})

\* C15 witness: an extracted page with 3 internal links or more, 80 words or
\* more and no noindex directive: seven findings.
C15_Witness ==
  /\ Extracted
  /\ page.internal_links >= 3 /\ page.word_count >= 80
  /\ ~HasNoindex(page.meta_robots)
  /\ Len(page.wins) + Len(page.issues) = 7

\* at the loop head the PageRecords and the visited set name the same URLs
C16_AtLoopHead ==
  pc = "loop" =>
    Range(PageUrls) = visited /\ Len(site.pages) = Cardinality(visited)

\* a pass of the loop body
Dequeue == pc = "loop" /\ pc' = "loop"

\* the pass fetched a URL and fetch_page_dom raised
FetchRaised == Len(fetched') = Len(fetched) + 1 /\ web'[fetched'[Len(fetched')]].raise

C16_EveryDequeueAppends ==
  Dequeue =>
    /\ Len(site'.pages) = Len(site.pages) + 1
    /\ FetchRaised => queue' = Tail(queue)

C16_DequeueAppends ==
  Dequeue =>
    /\ queue' # <<>> => SubSeq(queue', 1, Len(queue) - 1) = Tail(queue)
    /\ IF norm_url(Head(queue)) \in visited
         THEN site'.pages = site.pages /\ visited' = visited /\ queue' = Tail(queue)
         ELSE /\ Len(site'.pages) = Len(site.pages) + 1
              /\ SubSeq(site'.pages, 1, Len(site.pages)) = site.pages
              /\ site'.pages[Len(site'.pages)].url = norm_url(Head(queue))
              /\ visited' = visited \cup {norm_url(Head(queue))}
    /\ FetchRaised => queue' = Tail(queue)

====
